---- MODULE Spec2Model ----
(***************************************************************************)
(* Model of ModelCheckpointYolov4 (src/custom_callbacks.py): the save      *)
(* trigger (by epoch or by step count), the best-value gate, the           *)
(* resolution of the path template, and the scan for the most recently     *)
(* modified checkpoint file.                                               *)
(***************************************************************************)
EXTENDS Integers, Sequences, FiniteSets, TLC

\* ------------------------------------------------------------------ bounds
MaxEpochs == 2      \* epochs the training driver runs
MaxSteps == 3       \* steps the driver runs in one epoch
MaxFreq == 3        \* largest integer save_freq
MaxMetric == 2      \* metric values are 0..MaxMetric
MaxInitialEpoch == 4 \* fit(initial_epoch=...) starts at 0 or at this epoch
MaxPeriod == 2      \* `period` is 1..MaxPeriod
MaxSpe == 2         \* steps_per_execution is 1..MaxSpe
SomeThreshold == 1  \* the initial_value_threshold tried besides None
MaxTime == 2        \* modification times are 0..MaxTime
MaxWriters == 3         \* workers of the strategy: tasks 0..MaxWriters-1

\* ------------------------------------------------------- values and names
\* `None` for the batch argument of _save_model (batches are >= 0).
NoBatch == -1

\* Floats with the two infinities np.Inf and -np.Inf: inf is -1, 0 or 1.
Num(v) == [inf |-> 0, v |-> v]
PosInf == [inf |-> 1, v |-> 0]
NegInf == [inf |-> -1, v |-> 0]

np_less(a, b) == \/ a.inf < b.inf
                 \/ a.inf = 0 /\ b.inf = 0 /\ a.v < b.v
np_greater(a, b) == np_less(b, a)

\* The characters of the metric names used as `monitor`.
Chars(name) ==
  CASE name = "val_loss" -> <<"v", "a", "l", "_", "l", "o", "s", "s">>
    [] name = "acc"      -> <<"a", "c", "c">>
    [] name = "val_acc"  -> <<"v", "a", "l", "_", "a", "c", "c">>
    [] name = "fmeasure" -> <<"f", "m", "e", "a", "s", "u", "r", "e">>
    [] name = "accuracy" -> <<"a", "c", "c", "u", "r", "a", "c", "y">>
    [] name = "val_fmeasure" ->
         <<"v", "a", "l", "_", "f", "m", "e", "a", "s", "u", "r", "e">>
    [] OTHER             -> <<>>

\* Python's `sub in s` and s.startswith(sub) on character sequences.
StartsWith(s, sub) ==
  /\ Len(sub) <= Len(s)
  /\ \A i \in 1..Len(sub) : s[i] = sub[i]
Contains(s, sub) ==
  \E k \in 0..(Len(s) - Len(sub)) :
     \A i \in 1..Len(sub) : s[k + i] = sub[i]

\* __init__, lines 122-145: the comparison chosen from `mode` and `monitor`.
MonitorOpOf(mode, monitor) ==
  IF mode = "min" THEN "less"
  ELSE IF mode = "max" THEN "greater"
  ELSE IF \/ Contains(Chars(monitor), <<"a", "c", "c">>)
          \/ StartsWith(Chars(monitor), Chars("fmeasure"))
       THEN "greater"
       ELSE "less"

\* __init__, lines 73 and 129-145: the initial best value. `threshold` is
\* initial_value_threshold, NoThreshold for None.
NoThreshold == -1
InitialBest(op, threshold) ==
  IF threshold # NoThreshold THEN Num(threshold)
  ELSE IF op = "less" THEN PosInf ELSE NegInf

\* self.monitor_op(current, self.best), line 240.
MonitorOpReversed(op, current, best) ==
  IF op = "less" THEN np_greater(current, best) ELSE np_less(current, best)
MonitorOp(op, current, best) ==
  IF op = "less" THEN np_less(current, best) ELSE np_greater(current, best)

\* ------------------------------------------------------- path templates
\* A template is a sequence of segments: literal text, or a replacement
\* field {name:spec}.
Lit(text) == [kind |-> "lit", text |-> text, spec |-> ""]
Field(name, spec) == [kind |-> "field", text |-> name, spec |-> spec]

\* "ckpt.bin", "ckpt-{epoch:02d}.bin", "ckpt-{epoch:02d}-{batch:02d}.bin"
\* and "ckpt-{val_loss:.0f}.bin".
TemplatePlain == <<Lit("ckpt.bin")>>
TemplateEpoch == <<Lit("ckpt-"), Field("epoch", "02d"), Lit(".bin")>>
TemplateBatch == <<Lit("ckpt-"), Field("epoch", "02d"), Lit("-"),
                   Field("batch", "02d"), Lit(".bin")>>
TemplateMetric == <<Lit("ckpt-"), Field("val_loss", ".0f"), Lit(".bin")>>
\* "ckpt/f.batch{batch:02d}epoch{epoch:02d}", the pattern of the restart
\* lookup's example.
TemplateRestart == <<Lit("ckpt/f.batch"), Field("batch", "02d"), Lit("epoch"),
                     Field("epoch", "02d")>>
Templates == {TemplatePlain, TemplateEpoch, TemplateBatch, TemplateMetric}

FieldNames(template) ==
  {template[i].text : i \in {j \in 1..Len(template) : template[j].kind = "field"}}

DigitChar == <<"0", "1", "2", "3", "4", "5", "6", "7", "8", "9">>

\* The decimal digits of v >= 0, as format(v, "d") writes them.
RECURSIVE Dec(_)
Dec(v) == IF v < 10 THEN <<DigitChar[v + 1]>>
          ELSE Dec(v \div 10) \o <<DigitChar[(v % 10) + 1]>>

\* format(v, "02d"): zero-padded to a width of two.
Format02d(v) == IF Len(Dec(v)) < 2 THEN <<"0">> \o Dec(v) ELSE Dec(v)

\* One segment of the template under str.format(**kwargs).
Render(seg, kwargs) ==
  IF seg.kind = "lit" THEN <<seg.text>>
  ELSE IF seg.spec = "02d" THEN Format02d(kwargs[seg.text])
  ELSE Dec(kwargs[seg.text])

RECURSIVE StrFormat(_, _)
StrFormat(template, kwargs) ==
  IF template = <<>> THEN <<>>
  ELSE Render(Head(template), kwargs) \o StrFormat(Tail(template), kwargs)

\* _get_file_path, lines 328-333: the keyword arguments handed to
\* self.filepath.format. `logs` is a function from metric names to values.
FormatKwargsZeroIndexed(epoch, batch, logs) ==
  IF batch = NoBatch \/ "batch" \in DOMAIN logs
  THEN [k \in DOMAIN logs \cup {"epoch"} |->
          IF k = "epoch" THEN epoch ELSE logs[k]]
  ELSE [k \in DOMAIN logs \cup {"epoch", "batch"} |->
          IF k = "epoch" THEN epoch
          ELSE IF k = "batch" THEN batch ELSE logs[k]]
FormatKwargsAlwaysBatch(epoch, batch, logs) ==
  [k \in DOMAIN logs \cup {"epoch", "batch"} |->
     IF k = "epoch" THEN epoch + 1
     ELSE IF k = "batch" THEN batch + 1 ELSE logs[k]]
FormatKwargs(epoch, batch, logs) ==
  IF batch = NoBatch \/ "batch" \in DOMAIN logs
  THEN [k \in DOMAIN logs \cup {"epoch"} |->
          IF k = "epoch" THEN epoch + 1 ELSE logs[k]]
  ELSE [k \in DOMAIN logs \cup {"epoch", "batch"} |->
          IF k = "epoch" THEN epoch + 1
          ELSE IF k = "batch" THEN batch + 1 ELSE logs[k]]

NoPath == <<>>
NoKwargs == <<>>

\* _get_file_path, lines 320-342. A keyword given twice (logs has an entry
\* named "epoch") is Python's TypeError at the call; a field without a
\* keyword is the KeyError of lines 334-338. In a single-worker run
\* write_filepath returns the path it is given.
GetFilePathNoKeyCheck(template, epoch, batch, logs) ==
  IF "epoch" \in DOMAIN logs
  THEN [err |-> "TypeError", kwargs |-> NoKwargs, file_path |-> NoPath]
  ELSE LET kwargs == FormatKwargs(epoch, batch, logs)
           present == [k \in FieldNames(template) |->
                         IF k \in DOMAIN kwargs THEN kwargs[k] ELSE 0]
       IN [err |-> "", kwargs |-> kwargs,
           file_path |-> StrFormat(template, present)]
GetFilePath(template, epoch, batch, logs) ==
  IF "epoch" \in DOMAIN logs
  THEN [err |-> "TypeError", kwargs |-> NoKwargs, file_path |-> NoPath]
  ELSE LET kwargs == FormatKwargs(epoch, batch, logs)
       IN IF FieldNames(template) \subseteq DOMAIN kwargs
          THEN [err |-> "", kwargs |-> kwargs,
                file_path |-> StrFormat(template, kwargs)]
          ELSE [err |-> "KeyError", kwargs |-> kwargs, file_path |-> NoPath]

\* ------------------------------------------------------------ the manager
VARIABLES
  save_freq,          \* [kind |-> "epoch" | "int", n |-> the integer]
  period,             \* deprecated `period` keyword, 1 when not given
  save_best_only,
  monitor,            \* name of the monitored metric
  monitor_op,         \* "less" for np.less, "greater" for np.greater
  filepath,           \* the path template
  best,
  epochs_since_last_save,
  batches_seen_since_last_saving,
  last_batch_seen,
  current_epoch,
  steps_per_execution, \* the driver reports every steps_per_execution-th step
  drv_kind,           \* "sequential", or "arbitrary" step indices
  logged,             \* the names the driver's logs may carry
  drv_phase,          \* "idle" between epochs, "epoch" inside one
  drv_epoch,          \* index of the current (or next) epoch
  drv_step,           \* steps the driver has run in the current epoch
  epochs_run,
  event,              \* the hook call last made, with its arguments
  outcome,            \* what that call did
  artifacts,          \* resolved paths the serializer has written
  n_calls,            \* on_train_batch_end calls so far
  n_triggers,         \* of which _should_save_on_batch returned True
  \* _get_most_recently_modified_file_matching_pattern and what it reads
  dir_exists,         \* tf.io.gfile.exists(dir_name)
  listing,            \* os.listdir(dir_name) in its order, with each mtime
  latest_tf_checkpoint, \* tf.train.latest_checkpoint(dir_name), or NoPath
  loc_pc,             \* "idle", "scan", "scanned" or "done"
  loc_i,              \* entries of the listing the loop has passed
  latest_mod_time,
  file_path_with_latest_mod_time,
  n_file_with_latest_mod_time,
  file_path_with_largest_file_name,
  located,            \* the value returned
  \* several instances of the callback, one per worker of a multi-worker
  \* strategy, saving for one event into one directory
  w_event,            \* the save event every writer is given
  w_pc,               \* each writer's place in _save_model
  w_status,           \* how each writer's _save_model went
  w_best,             \* each writer's self.best
  w_write_filepath,   \* each writer's self._write_filepath, or NoPath
  fs,                 \* the directories and files that exist
  fs_log              \* the file-system calls made, with the caller

config == <<save_freq, period, save_best_only, monitor, monitor_op, filepath,
            steps_per_execution, drv_kind, logged>>
driver == <<drv_phase, drv_epoch, drv_step, epochs_run>>
vars == <<save_freq, period, save_best_only, monitor, monitor_op, filepath,
          best, epochs_since_last_save, batches_seen_since_last_saving,
          last_batch_seen, current_epoch, steps_per_execution, drv_kind,
          logged, drv_phase, drv_epoch, drv_step, epochs_run, event, outcome,
          artifacts, n_calls, n_triggers, dir_exists, listing,
          latest_tf_checkpoint, loc_pc, loc_i, latest_mod_time,
          file_path_with_latest_mod_time, n_file_with_latest_mod_time,
          file_path_with_largest_file_name, located, w_event, w_pc,
          w_status, w_best, w_write_filepath, fs, fs_log>>
manager == <<save_freq, period, save_best_only, monitor, monitor_op, filepath,
             best, epochs_since_last_save, batches_seen_since_last_saving,
             last_batch_seen, current_epoch, steps_per_execution, drv_kind,
             logged, drv_phase, drv_epoch, drv_step, epochs_run, event,
             outcome, artifacts, n_calls, n_triggers>>
directory == <<dir_exists, listing, latest_tf_checkpoint>>
scan == <<loc_i, latest_mod_time, file_path_with_latest_mod_time,
          n_file_with_latest_mod_time, file_path_with_largest_file_name>>
locator == <<dir_exists, listing, latest_tf_checkpoint, loc_pc, loc_i,
             latest_mod_time, file_path_with_latest_mod_time,
             n_file_with_latest_mod_time, file_path_with_largest_file_name,
             located>>
cluster == <<w_event, w_pc, w_status, w_best, w_write_filepath, fs,
             fs_log>>

Epoch == [kind |-> "epoch", n |-> 0]
EverySteps(n) == [kind |-> "int", n |-> n]
SaveFreqs == {Epoch} \cup {EverySteps(n) : n \in 1..MaxFreq}

\* The save_freq arguments a caller may hand to __init__: "epoch", any
\* integer, or a value that is neither (a float, another string).
NotAnInt == [kind |-> "other", n |-> 0]
SaveFreqArgs ==
  {Epoch, NotAnInt} \cup {EverySteps(n) : n \in (0 - MaxFreq)..MaxFreq}

\* __init__, lines 147-151: ValueError unless save_freq is "epoch" or an
\* instance of int.
SaveFreqAcceptedWhenPositive(freq) ==
  freq.kind = "epoch" \/ (freq.kind = "int" /\ freq.n >= 1)
SaveFreqAccepted(freq) == freq.kind = "epoch" \/ freq.kind = "int"

Monitors == {"val_loss", "val_acc"}
Modes == {"auto", "min", "max"}
Thresholds == {NoThreshold, SomeThreshold}

\* The logs of one event: each logged name is present or absent; an entry
\* named "batch" or "epoch" holds 0.
LogsOver(keys) == UNION {[d -> 0..MaxMetric] : d \in SUBSET keys}
LogsSet ==
  {l \in LogsOver(logged) :
     /\ "batch" \in DOMAIN l => l["batch"] = 0
     /\ "epoch" \in DOMAIN l => l["epoch"] = 0}

NoEpoch == -1
NoEvent == [hook |-> "none", epoch |-> NoEpoch, batch |-> NoBatch,
            logs |-> <<>>]
NoOutcome == [status |-> "none", add_batches |-> 0, kwargs |-> NoKwargs,
              file_path |-> NoPath]

\* _should_save_on_batch, lines 200-203.
AddBatchesStrict(batch, last) ==
  IF batch < last THEN batch + 1 ELSE batch - last
AddBatches(batch, last) ==
  IF batch <= last THEN batch + 1 ELSE batch - last

\* _should_save_on_batch, lines 207-210: the counter after the call.
CounterAfterCarry(seen, freq) == IF seen >= freq THEN seen - freq ELSE seen
CounterAfter(seen, freq) == IF seen >= freq THEN 0 ELSE seen

\* logs.get(self.monitor), line 232: NoValue is None.
NoValue == -1
LogsGetOrZero(logs, key) == IF key \in DOMAIN logs THEN logs[key] ELSE 0
LogsGet(logs, key) == IF key \in DOMAIN logs THEN logs[key] ELSE NoValue

\* _save_model, lines 222-224.
IntervalReachedAlways(freq, since, per) == TRUE
IntervalReached(freq, since, per) == freq.kind = "int" \/ since >= per

\* _save_model, lines 212-318, entered with epochs_since_last_save = since.
\* `fails`: the serializer's save raises IOError.
SaveModel(since, epoch, batch, logs, fails, add) ==
  IF ~IntervalReached(save_freq, since, period)
  THEN /\ epochs_since_last_save' = since
       /\ outcome' = [NoOutcome EXCEPT !.status = "interval_not_reached",
                                       !.add_batches = add]
       /\ UNCHANGED <<best, artifacts>>
  ELSE
    LET r == GetFilePath(filepath, epoch, batch, logs)
        out(status) == [status |-> status, add_batches |-> add,
                        kwargs |-> r.kwargs, file_path |-> r.file_path]
        write == IF fails
                 THEN outcome' = out("IOError") /\ UNCHANGED artifacts
                 ELSE /\ outcome' = out("saved")
                      /\ artifacts' = artifacts \cup {r.file_path}
    IN /\ epochs_since_last_save' = 0
       /\ IF r.err # ""
          THEN /\ outcome' = out(r.err)
               /\ UNCHANGED <<best, artifacts>>
          ELSE IF save_best_only
          THEN IF LogsGet(logs, monitor) = NoValue
               THEN /\ outcome' = out("metric_unavailable")
                    /\ UNCHANGED <<best, artifacts>>
               ELSE IF MonitorOp(monitor_op, Num(LogsGet(logs, monitor)), best)
               THEN /\ best' = Num(LogsGet(logs, monitor))
                    /\ write
               ELSE /\ outcome' = out("not_improved")
                    /\ UNCHANGED <<best, artifacts>>
          ELSE /\ UNCHANGED best
               /\ write

\* on_epoch_begin, lines 186-187.
OnEpochBegin ==
  /\ drv_phase = "idle"
  /\ epochs_run < MaxEpochs
  /\ current_epoch' = drv_epoch
  /\ drv_phase' = "epoch"
  /\ drv_step' = 0
  /\ event' = [NoEvent EXCEPT !.hook = "on_epoch_begin", !.epoch = drv_epoch]
  /\ outcome' = NoOutcome
  /\ UNCHANGED <<config, best, epochs_since_last_save,
                 batches_seen_since_last_saving, last_batch_seen, drv_epoch,
                 epochs_run, artifacts, n_calls, n_triggers, locator,
                 cluster>>

\* on_train_batch_end with _should_save_on_batch, lines 182-184 and 195-210.
BatchEnd(batch, logs, fails) ==
  /\ event' = [hook |-> "on_train_batch_end", epoch |-> current_epoch,
               batch |-> batch, logs |-> logs]
  /\ n_calls' = n_calls + 1
  /\ IF save_freq.kind = "epoch"
     THEN /\ outcome' = [NoOutcome EXCEPT !.status = "no_trigger"]
          /\ UNCHANGED <<best, epochs_since_last_save,
                         batches_seen_since_last_saving, last_batch_seen,
                         artifacts, n_triggers>>
     ELSE LET add == AddBatches(batch, last_batch_seen)
              seen == batches_seen_since_last_saving + add
          IN /\ last_batch_seen' = batch
             /\ batches_seen_since_last_saving' = CounterAfter(seen, save_freq.n)
             /\ IF seen >= save_freq.n
                THEN /\ n_triggers' = n_triggers + 1
                     /\ SaveModel(epochs_since_last_save, current_epoch,
                                  batch, logs, fails, add)
                ELSE /\ outcome' = [NoOutcome EXCEPT !.status = "no_trigger",
                                                     !.add_batches = add]
                     /\ UNCHANGED <<best, epochs_since_last_save, artifacts,
                                    n_triggers>>

\* A sequential driver reports the step that ends each execution of
\* steps_per_execution steps: indices spe-1, 2*spe-1, ... in every epoch.
\* An arbitrary driver reports any non-negative indices.
OnTrainBatchEnd ==
  /\ drv_phase = "epoch"
  /\ drv_step + steps_per_execution <= MaxSteps
  /\ \E logs \in LogsSet, fails \in BOOLEAN :
       IF drv_kind = "sequential"
       THEN BatchEnd(drv_step + steps_per_execution - 1, logs, fails)
       ELSE \E batch \in 0..(MaxSteps - 1) : BatchEnd(batch, logs, fails)
  /\ drv_step' = drv_step + steps_per_execution
  /\ UNCHANGED <<config, current_epoch, drv_phase, drv_epoch, epochs_run,
                 locator, cluster>>

\* on_epoch_end, lines 189-193.
OnEpochEnd ==
  /\ drv_phase = "epoch"
  /\ \E logs \in LogsSet, fails \in BOOLEAN :
       /\ event' = [hook |-> "on_epoch_end", epoch |-> drv_epoch,
                    batch |-> NoBatch, logs |-> logs]
       /\ IF save_freq.kind = "epoch"
          THEN SaveModel(epochs_since_last_save + 1, drv_epoch, NoBatch, logs,
                         fails, 0)
          ELSE /\ epochs_since_last_save' = epochs_since_last_save + 1
               /\ outcome' = [NoOutcome EXCEPT !.status = "no_trigger"]
               /\ UNCHANGED <<best, artifacts>>
  /\ drv_phase' = "idle"
  /\ drv_epoch' = drv_epoch + 1
  /\ epochs_run' = epochs_run + 1
  /\ UNCHANGED <<config, batches_seen_since_last_saving, last_batch_seen,
                 current_epoch, drv_step, n_calls, n_triggers, locator,
                 cluster>>

\* __init__, lines 61-155, for every accepted combination of arguments,
\* and every driver.
InitManager ==
  /\ save_freq \in SaveFreqs
  /\ period \in 1..MaxPeriod
  /\ save_best_only \in BOOLEAN
  /\ monitor \in Monitors
  /\ \E mode \in Modes, threshold \in Thresholds :
       /\ monitor_op = MonitorOpOf(mode, monitor)
       /\ best = InitialBest(MonitorOpOf(mode, monitor), threshold)
  /\ filepath \in Templates \cup {TemplateRestart}
  /\ epochs_since_last_save = 0
  /\ batches_seen_since_last_saving = 0
  /\ last_batch_seen = 0
  /\ current_epoch = NoEpoch
  /\ steps_per_execution \in 1..MaxSpe
  /\ drv_kind \in {"sequential", "arbitrary"}
  /\ logged \in SUBSET {monitor, "batch", "epoch"}
  /\ drv_phase = "idle"
  /\ drv_epoch \in {0, MaxInitialEpoch}
  /\ drv_step = 0
  /\ epochs_run = 0
  /\ event = NoEvent
  /\ outcome = NoOutcome
  /\ artifacts = {}
  /\ n_calls = 0
  /\ n_triggers = 0

\* ------------------------------------------------------------ the writers
\* In multi-worker training every worker runs its own instance of the
\* callback; self.model.distribute_strategy tells the instance its task.
\* Paths are sequences of pieces of text, "/" being a piece of its own.
Writers == 0..(MaxWriters - 1)

\* strategy.extended.should_checkpoint: the chief, task 0.
ShouldCheckpoint(w) == w = 0

Sep == "/"
SepAt(path) == {i \in 1..Len(path) : path[i] = Sep}
LastSep(path) == CHOOSE i \in SepAt(path) : \A j \in SepAt(path) : j <= i
OsPathDirname(path) ==
  IF SepAt(path) = {} THEN <<>> ELSE SubSeq(path, 1, LastSep(path) - 1)
OsPathBasename(path) ==
  IF SepAt(path) = {} THEN path
  ELSE SubSeq(path, LastSep(path) + 1, Len(path))
OsPathJoin(dir, name) == IF dir = <<>> THEN name ELSE dir \o <<Sep>> \o name

\* distributed_file_utils: a worker that should not checkpoint is given
\* the directory "workertemp_<task id>" inside the directory of the path,
\* which is created when the write path is asked for.
TempDirName(w) == <<"workertemp_">> \o Dec(w)
EndsWith(path, suffix) ==
  /\ Len(path) >= Len(suffix)
  /\ SubSeq(path, Len(path) - Len(suffix) + 1, Len(path)) = suffix
GetTempDir(dirpath, w) ==
  IF EndsWith(dirpath, TempDirName(w)) THEN dirpath
  ELSE OsPathJoin(dirpath, TempDirName(w))
WriteDirpath(dirpath, w) ==
  IF ShouldCheckpoint(w) THEN dirpath ELSE GetTempDir(dirpath, w)

\* distributed_file_utils.write_filepath(file_path, strategy), line 339.
WriteFilepathReal(file_path, w) == file_path
WriteFilepath(file_path, w) ==
  OsPathJoin(WriteDirpath(OsPathDirname(file_path), w),
             OsPathBasename(file_path))

\* Directory `dir` and everything inside it.
Inside(dir, path) ==
  /\ Len(path) >= Len(dir)
  /\ SubSeq(path, 1, Len(dir)) = dir
  /\ Len(path) > Len(dir) => path[Len(dir) + 1] = Sep

\* _maybe_remove_file, lines 344-350: the files left by
\* distributed_file_utils.remove_temp_dir_with_filepath(write_filepath,
\* strategy), which deletes the worker's temporary directory recursively.
MaybeRemoveFileOnlyTheFile(files, write_filepath, w) ==
  IF ShouldCheckpoint(w) THEN files ELSE files \ {write_filepath}
MaybeRemoveFile(files, write_filepath, w) ==
  IF ShouldCheckpoint(w) THEN files
  ELSE {p \in files :
          ~Inside(GetTempDir(OsPathDirname(write_filepath), w), p)}

\* _save_model, lines 231-299: what the instance decides for logs `logs`
\* when its best value is b.
Gate(logs, b) ==
  IF ~save_best_only THEN "save"
  ELSE IF LogsGet(logs, monitor) = NoValue THEN "metric_unavailable"
  ELSE IF MonitorOp(monitor_op, Num(LogsGet(logs, monitor)), b) THEN "save"
  ELSE "not_improved"

\* _checkpoint_exists, lines 352-360, for a path that does not end in ".h5".
CheckpointExists(files, path) ==
  path \in files \/ (path \o <<".index">>) \in files
FsCall(w, op, path) == [writer |-> w, op |-> op, path |-> path]

\* _save_model, lines 222-228, for the event every writer is given:
\* _get_file_path resolves the path and asks for the write path, which
\* creates the temporary directory of a worker that should not checkpoint.
WriterGetFilePath(w) ==
  /\ w_pc[w] = "start"
  /\ LET r == GetFilePath(filepath, w_event.epoch, w_event.batch,
                          w_event.logs)
         path == WriteFilepath(r.file_path, w)
     IN IF r.err # ""
        THEN /\ w_pc' = [w_pc EXCEPT ![w] = "raised"]
             /\ w_status' = [w_status EXCEPT ![w] = r.err]
             /\ UNCHANGED <<w_write_filepath, fs, fs_log>>
        ELSE /\ w_pc' = [w_pc EXCEPT ![w] = "resolved"]
             /\ w_write_filepath' = [w_write_filepath EXCEPT ![w] = path]
             /\ IF ShouldCheckpoint(w)
                THEN UNCHANGED <<fs, fs_log>>
                ELSE /\ fs' = fs \cup {OsPathDirname(path)}
                     /\ fs_log' = fs_log
                          \cup {FsCall(w, "makedirs", OsPathDirname(path))}
             /\ UNCHANGED w_status
  /\ UNCHANGED <<manager, locator, w_event, w_best>>

\* _save_model, lines 230-299: the gate and the serializer's save, which
\* may raise.
WriterSave(w) ==
  /\ w_pc[w] = "resolved"
  /\ LET gate == Gate(w_event.logs, w_best[w])
     IN IF gate # "save"
        THEN /\ w_pc' = [w_pc EXCEPT ![w] = "gated"]
             /\ w_status' = [w_status EXCEPT ![w] = gate]
             /\ UNCHANGED <<w_best, fs, fs_log>>
        ELSE /\ w_best' = IF save_best_only
                          THEN [w_best EXCEPT
                                  ![w] = Num(LogsGet(w_event.logs, monitor))]
                          ELSE w_best
             /\ fs_log' = fs_log \cup {FsCall(w, "save", w_write_filepath[w])}
             /\ \E fails \in BOOLEAN :
                  IF fails
                  THEN /\ w_pc' = [w_pc EXCEPT ![w] = "raised"]
                       /\ w_status' = [w_status EXCEPT ![w] = "IOError"]
                       /\ UNCHANGED fs
                  ELSE /\ w_pc' = [w_pc EXCEPT ![w] = "gated"]
                       /\ w_status' = [w_status EXCEPT ![w] = "saved"]
                       /\ fs' = fs \cup {w_write_filepath[w]}
  /\ UNCHANGED <<manager, locator, w_event, w_write_filepath>>

\* _save_model, line 301, reached when nothing was raised.
WriterMaybeRemoveFile(w) ==
  /\ w_pc[w] = "gated"
  /\ w_pc' = [w_pc EXCEPT ![w] = "returned"]
  /\ fs' = MaybeRemoveFile(fs, w_write_filepath[w], w)
  /\ fs_log' =
       IF ShouldCheckpoint(w) THEN fs_log
       ELSE fs_log \cup {FsCall(w, "rmtree",
                                OsPathDirname(w_write_filepath[w]))}
  /\ UNCHANGED <<manager, locator, w_event, w_status, w_best,
                 w_write_filepath>>

ClusterIdle ==
  /\ w_event = NoEvent
  /\ w_pc = [w \in Writers |-> "off"]
  /\ w_status = [w \in Writers |-> ""]
  /\ w_best = [w \in Writers |-> PosInf]
  /\ w_write_filepath = [w \in Writers |-> NoPath]
  /\ fs = {}
  /\ fs_log = {}

\* ------------------------------------------------------------ the locator
\* File names and paths are sequences of character codes; Python compares
\* strings code by code, a proper prefix being the smaller.
Slash == 47
Dot == 46

\* "ckpt", and the names "f.batch01epoch01", "f.batch02epoch02",
\* "f.batch03epoch02" of the docstring's example, and "z".
DirName == <<99, 107, 112, 116>>
FBatchPrefix == <<102, 46, 98, 97, 116, 99, 104>>
EpochInfix == <<101, 112, 111, 99, 104>>
Batch01Epoch01 == FBatchPrefix \o <<48, 49>> \o EpochInfix \o <<48, 49>>
Batch02Epoch02 == FBatchPrefix \o <<48, 50>> \o EpochInfix \o <<48, 50>>
Batch03Epoch02 == FBatchPrefix \o <<48, 51>> \o EpochInfix \o <<48, 50>>
OtherName == <<122>>
FileNames == {Batch01Epoch01, Batch02Epoch02, Batch03Epoch02, OtherName}

\* The pattern is TemplateRestart: re.sub(r"{.*}",
\* r".*", base_name) replaces everything from the first "{" to the last "}",
\* so base_name_regex is "^f.batch.*$" (lines 403-405). In a regular
\* expression "." stands for any character.
RegexPrefix == FBatchPrefix
RegexSuffix == <<>>

ReMatchAny(name) == TRUE
\* re.match(base_name_regex, file_name), lines 410 and 423.
ReMatch(name) ==
  /\ Len(name) >= Len(RegexPrefix) + Len(RegexSuffix)
  /\ \A i \in 1..Len(RegexPrefix) :
        RegexPrefix[i] = Dot \/ RegexPrefix[i] = name[i]
  /\ \A i \in 1..Len(RegexSuffix) :
        \/ RegexSuffix[i] = Dot
        \/ RegexSuffix[i] = name[Len(name) - Len(RegexSuffix) + i]

\* os.path.join(dir_name, file_name), line 424.
PathJoin(dir, name) == dir \o <<Slash>> \o name

BasenameWholePath(path) == path
\* os.path.basename(path), line 411: what follows the last "/".
RECURSIVE Basename(_)
Basename(path) ==
  IF \A i \in 1..Len(path) : path[i] # Slash THEN path
  ELSE Basename(Tail(path))

\* a > b on strings.
RECURSIVE StrGreater(_, _)
StrGreater(a, b) ==
  IF a = <<>> THEN FALSE
  ELSE IF b = <<>> THEN TRUE
  ELSE IF Head(a) # Head(b) THEN Head(a) > Head(b)
  ELSE StrGreater(Tail(a), Tail(b))

\* Lines 426-429: file_path_with_largest_file_name after one entry.
LargestFileNameSmallest(file_path, largest) ==
  IF largest = NoPath \/ StrGreater(largest, file_path)
  THEN file_path ELSE largest
LargestFileNameLastSeen(file_path, largest) == file_path
LargestFileName(file_path, largest) ==
  IF largest = NoPath \/ StrGreater(file_path, largest)
  THEN file_path ELSE largest

\* Lines 430-441: latest_mod_time, file_path_with_latest_mod_time and
\* n_file_with_latest_mod_time after one entry.
LatestAfter(file_path, mod_time, latest, path, n) ==
  IF mod_time > latest
  THEN [latest_mod_time |-> mod_time, path |-> file_path, n |-> 1]
  ELSE IF mod_time = latest
  THEN [latest_mod_time |-> latest, path |-> path, n |-> n + 1]
  ELSE [latest_mod_time |-> latest, path |-> path, n |-> n]

\* Lines 443-449: the value returned after the scan.
ScanResult(n, latest_path, largest_path) ==
  IF n = 1 THEN latest_path ELSE largest_path

\* Lines 415-441 as a function of the listing: the loop's variables after
\* its first k entries.
RECURSIVE ScanOver(_, _)
ScanOver(l, k) ==
  IF k = 0
  THEN [latest_mod_time |-> 0, path |-> NoPath, n |-> 0, largest |-> NoPath]
  ELSE LET s == ScanOver(l, k - 1)
           file_path == PathJoin(DirName, l[k].name)
           r == LatestAfter(file_path, l[k].mtime, s.latest_mod_time,
                            s.path, s.n)
       IN IF ReMatch(l[k].name)
          THEN [latest_mod_time |-> r.latest_mod_time, path |-> r.path,
                n |-> r.n, largest |-> LargestFileName(file_path, s.largest)]
          ELSE s

\* Lines 403-449 as a function: the value returned for marker `latest`
\* when os.listdir enumerates the directory as l.
LocateOver(latest, exists, l) ==
  IF latest # NoPath /\ ReMatch(Basename(latest)) THEN latest
  ELSE LET s == ScanOver(l, IF exists THEN Len(l) ELSE 0)
       IN ScanResult(s.n, s.path, s.largest)

\* The orders in which os.listdir may enumerate the entries of l.
Orders(l) ==
  {p \in [1..Len(l) -> 1..Len(l)] :
     \A i, j \in 1..Len(l) : i # j => p[i] # p[j]}
Reordered(l, p) == [i \in 1..Len(l) |-> l[p[i]]]
\* Lines 403-417: the marker is returned when its base name matches;
\* otherwise the scan starts.
LocateStart ==
  /\ loc_pc = "idle"
  /\ IF latest_tf_checkpoint # NoPath /\ ReMatch(Basename(latest_tf_checkpoint))
     THEN /\ located' = latest_tf_checkpoint
          /\ loc_pc' = "done"
          /\ UNCHANGED scan
     ELSE /\ latest_mod_time' = 0
          /\ file_path_with_latest_mod_time' = NoPath
          /\ n_file_with_latest_mod_time' = 0
          /\ file_path_with_largest_file_name' = NoPath
          /\ loc_i' = 0
          /\ loc_pc' = IF dir_exists THEN "scan" ELSE "scanned"
          /\ UNCHANGED located
  /\ UNCHANGED <<manager, cluster, directory>>

\* Lines 421-441: one turn of the loop over os.listdir(dir_name).
LocateScanEntry ==
  /\ loc_pc = "scan"
  /\ loc_i < Len(listing)
  /\ LET file_name == listing[loc_i + 1].name
         mod_time == listing[loc_i + 1].mtime
         file_path == PathJoin(DirName, file_name)
         r == LatestAfter(file_path, mod_time, latest_mod_time,
                          file_path_with_latest_mod_time,
                          n_file_with_latest_mod_time)
     IN IF ReMatch(file_name)
        THEN /\ file_path_with_largest_file_name' =
                  LargestFileName(file_path, file_path_with_largest_file_name)
             /\ latest_mod_time' = r.latest_mod_time
             /\ file_path_with_latest_mod_time' = r.path
             /\ n_file_with_latest_mod_time' = r.n
        ELSE UNCHANGED <<latest_mod_time, file_path_with_latest_mod_time,
                         n_file_with_latest_mod_time,
                         file_path_with_largest_file_name>>
  /\ loc_i' = loc_i + 1
  /\ UNCHANGED <<manager, cluster, directory, loc_pc, located>>

\* The loop has passed every entry.
LocateScanEnd ==
  /\ loc_pc = "scan"
  /\ loc_i = Len(listing)
  /\ loc_pc' = "scanned"
  /\ UNCHANGED <<manager, cluster, directory, scan, located>>

\* Lines 443-449.
LocateReturn ==
  /\ loc_pc = "scanned"
  /\ located' = ScanResult(n_file_with_latest_mod_time,
                           file_path_with_latest_mod_time,
                           file_path_with_largest_file_name)
  /\ loc_pc' = "done"
  /\ UNCHANGED <<manager, cluster, directory, scan>>

\* Every order of every set of entries, each with any modification time.
Listings ==
  {l \in UNION {[1..k -> [name : FileNames, mtime : 0..MaxTime]] :
                  k \in 0..Cardinality(FileNames)} :
     \A i, j \in 1..Len(l) : i # j => l[i].name # l[j].name}

LocatorIdle ==
  /\ dir_exists = FALSE
  /\ listing = <<>>
  /\ latest_tf_checkpoint = NoPath
  /\ loc_pc = "off"
  /\ loc_i = 0
  /\ latest_mod_time = 0
  /\ file_path_with_latest_mod_time = NoPath
  /\ n_file_with_latest_mod_time = 0
  /\ file_path_with_largest_file_name = NoPath
  /\ located = NoPath

\* on_train_begin, lines 157-163, about to look up the file to restore, in
\* a manager built with the default arguments.
InitLocator ==
  /\ InitManager /\ ClusterIdle
  /\ save_freq = Epoch /\ period = 1 /\ ~save_best_only
  /\ monitor = "val_loss" /\ best = PosInf /\ filepath = TemplateRestart
  /\ steps_per_execution = 1 /\ drv_kind = "sequential" /\ logged = {}
  /\ drv_epoch = 0
  /\ dir_exists \in BOOLEAN
  /\ listing \in Listings
  /\ ~dir_exists => listing = <<>>
  /\ latest_tf_checkpoint \in
       {NoPath, PathJoin(DirName, Batch01Epoch01), PathJoin(DirName, OtherName)}
  /\ loc_pc = "idle"
  /\ loc_i = 0
  /\ latest_mod_time = 0
  /\ file_path_with_latest_mod_time = NoPath
  /\ n_file_with_latest_mod_time = 0
  /\ file_path_with_largest_file_name = NoPath
  /\ located = NoPath

NextLocator ==
  LocateStart \/ LocateScanEntry \/ LocateScanEnd \/ LocateReturn

SpecLocator == InitLocator /\ [][NextLocator]_vars

\* The manager with the restart lookup not in use.
Init == InitManager /\ LocatorIdle /\ ClusterIdle

Next == OnEpochBegin \/ OnTrainBatchEnd \/ OnEpochEnd

\* The whole machine. The claims are checked on three slices of it, each
\* varying the arguments its code reads and holding the others at their
\* defaults.
Spec == Init /\ [][Next]_vars

\* The save trigger: every save_freq, period and driver; the default
\* template, gate and logs.
InitSchedule ==
  /\ Init
  /\ ~save_best_only /\ monitor = "val_loss" /\ best = PosInf
  /\ filepath = TemplatePlain /\ logged = {} /\ drv_epoch = 0
  /\ save_freq.kind = "int" => period = 1
  /\ (save_freq.kind = "epoch" \/ drv_kind = "arbitrary")
        => steps_per_execution = 1
SpecSchedule == InitSchedule /\ [][Next]_vars

\* The best-value gate: every monitor, mode, threshold and save_best_only.
InitBest ==
  /\ Init
  /\ save_freq \in {Epoch, EverySteps(1)} /\ period = 1
  /\ steps_per_execution = 1 /\ drv_kind = "sequential"
  /\ filepath \in {TemplatePlain, TemplateMetric} /\ logged = {monitor}
  /\ drv_epoch = 0
SpecBest == InitBest /\ [][Next]_vars

\* The path template: every template, initial epoch and set of logged names.
InitPath ==
  /\ Init
  /\ save_freq \in {Epoch, EverySteps(2)} /\ period = 1
  /\ steps_per_execution = 1 /\ drv_kind = "sequential"
  /\ ~save_best_only /\ monitor = "val_loss" /\ best = PosInf
  /\ filepath \in Templates /\ Cardinality(logged) <= 1
SpecPath == InitPath /\ [][Next]_vars

\* Every worker's instance, built with the same arguments, is given the
\* same epoch-end save event; the instances run _save_model in any
\* interleaving against one directory.
InitWriters ==
  /\ InitManager /\ LocatorIdle
  /\ save_freq = Epoch /\ period = 1
  /\ steps_per_execution = 1 /\ drv_kind = "sequential"
  /\ filepath \in {TemplatePlain, TemplateEpoch, TemplateMetric}
  /\ logged = {monitor} /\ drv_epoch = 0
  /\ \E logs \in LogsSet :
       w_event = [hook |-> "on_epoch_end", epoch |-> 0, batch |-> NoBatch,
                  logs |-> logs]
  /\ w_pc = [w \in Writers |-> "start"]
  /\ w_status = [w \in Writers |-> ""]
  /\ w_best = [w \in Writers |-> best]
  /\ w_write_filepath = [w \in Writers |-> NoPath]
  /\ fs = {}
  /\ fs_log = {}
NextWriters ==
  \E w \in Writers :
     WriterGetFilePath(w) \/ WriterSave(w) \/ WriterMaybeRemoveFile(w)
SpecWriters == InitWriters /\ [][NextWriters]_vars

\* __init__ called with any save_freq argument and the other arguments at
\* their defaults: the instance exists, and is driven, only when __init__
\* did not raise.
InitConstruct ==
  /\ save_freq \in SaveFreqArgs
  /\ period = 1 /\ save_best_only = FALSE /\ monitor = "val_loss"
  /\ monitor_op = MonitorOpOf("auto", "val_loss")
  /\ best = InitialBest(MonitorOpOf("auto", "val_loss"), NoThreshold)
  /\ filepath = TemplatePlain
  /\ epochs_since_last_save = 0
  /\ batches_seen_since_last_saving = 0
  /\ last_batch_seen = 0
  /\ current_epoch = NoEpoch
  /\ steps_per_execution = 1
  /\ drv_kind \in {"sequential", "arbitrary"}
  /\ logged = {}
  /\ drv_phase = IF SaveFreqAccepted(save_freq) THEN "idle" ELSE "failed"
  /\ drv_epoch = 0 /\ drv_step = 0 /\ epochs_run = 0
  /\ event = NoEvent
  /\ outcome = IF SaveFreqAccepted(save_freq) THEN NoOutcome
               ELSE [NoOutcome EXCEPT !.status = "ValueError"]
  /\ artifacts = {} /\ n_calls = 0 /\ n_triggers = 0
  /\ LocatorIdle /\ ClusterIdle
SpecConstruct == InitConstruct /\ [][Next]_vars

\* __init__ called with mode="auto" (the default) and any of these names
\* as `monitor`; epoch-end saves with the metric in the logs.
AutoMonitors == {"val_loss", "accuracy", "val_acc", "fmeasure", "val_fmeasure"}
InitAuto ==
  /\ save_freq = Epoch /\ period = 1
  /\ save_best_only \in BOOLEAN
  /\ monitor \in AutoMonitors
  /\ monitor_op = MonitorOpOf("auto", monitor)
  /\ \E threshold \in Thresholds :
       best = InitialBest(MonitorOpOf("auto", monitor), threshold)
  /\ filepath = TemplatePlain
  /\ epochs_since_last_save = 0
  /\ batches_seen_since_last_saving = 0
  /\ last_batch_seen = 0
  /\ current_epoch = NoEpoch
  /\ steps_per_execution = 1
  /\ drv_kind = "sequential"
  /\ logged = {monitor}
  /\ drv_phase = "idle" /\ drv_epoch = 0 /\ drv_step = 0 /\ epochs_run = 0
  /\ event = NoEvent /\ outcome = NoOutcome
  /\ artifacts = {} /\ n_calls = 0 /\ n_triggers = 0
  /\ LocatorIdle /\ ClusterIdle
SpecAuto == InitAuto /\ [][Next]_vars

\* ------------------------------------------------------------- the claims
\* A hook call that reached the saving interval, so that _save_model went on
\* to resolve the path.
Triggered(o) ==
  o.status \in {"saved", "IOError", "KeyError", "TypeError",
                "metric_unavailable", "not_improved"}
\* The serializer's save was called.
Wrote(o) == o.status \in {"saved", "IOError"}
Complete(e) ==
  /\ "epoch" \notin DOMAIN e.logs
  /\ FieldNames(filepath) \subseteq
       DOMAIN FormatKwargs(e.epoch, e.batch, e.logs)

\* C1: in step mode with save_freq = n >= 1 and a driver that reports every
\* step 0,1,...,k-1 of each epoch, every on_train_batch_end call adds exactly
\* 1 to the counter, and after S calls the trigger has fired floor(S/n)
\* times, however the calls are divided into epochs.
C1_TriggersEveryNthStep ==
  (save_freq.kind = "int" /\ drv_kind = "sequential"
     /\ steps_per_execution = 1)
  => /\ n_triggers = n_calls \div save_freq.n
     /\ event.hook = "on_train_batch_end" => outcome.add_batches = 1
     /\ batches_seen_since_last_saving = n_calls % save_freq.n

\* The second trigger falls on the first step of a later epoch.
C1_Witness ==
  /\ save_freq = EverySteps(2) /\ drv_kind = "sequential"
  /\ steps_per_execution = 1
  /\ n_calls = 4 /\ n_triggers = 2 /\ epochs_run = 1
  /\ event.hook = "on_train_batch_end" /\ event.batch = 0
  /\ Triggered(outcome)

\* C2: in step mode with save_freq = n >= 1, after every call the counter is
\* in 0..n-1, every call adds at least 1, and the counter is 0 right after a
\* call that triggered, whatever the increment was.
C2_CounterBelowFreq ==
  save_freq.kind = "int"
  => /\ 0 <= batches_seen_since_last_saving
     /\ batches_seen_since_last_saving < save_freq.n
     /\ last_batch_seen >= 0
     /\ event.hook = "on_train_batch_end"
          => /\ outcome.add_batches >= 1
             /\ Triggered(outcome) => batches_seen_since_last_saving = 0
             /\ ~Triggered(outcome)
                  => batches_seen_since_last_saving >= outcome.add_batches

\* A triggering call whose increment alone overshoots save_freq.
C2_Witness ==
  /\ save_freq.kind = "int"
  /\ event.hook = "on_train_batch_end" /\ Triggered(outcome)
  /\ outcome.add_batches > save_freq.n
  /\ batches_seen_since_last_saving = 0

\* C3 as stated: in epoch mode every on_epoch_end call makes one save
\* attempt, and on_train_batch_end makes none.
C3_EveryEpochEndSaves ==
  save_freq.kind = "epoch"
  => /\ event.hook = "on_epoch_end" => Triggered(outcome)
     /\ event.hook = "on_train_batch_end" => outcome.status = "no_trigger"

\* C3, amended: in epoch mode an on_epoch_end call makes one save attempt
\* exactly when the epochs since the last attempt, this one counted, have
\* reached `period` (every call when period is 1), and none otherwise;
\* on_train_batch_end makes no attempt and leaves the step counter, the last
\* observed step, the best value and the artifacts as they were.
C3_EpochEndSavesEveryPeriod ==
  [][save_freq.kind = "epoch"
     => /\ event'.hook = "on_epoch_end"
           => /\ Triggered(outcome') <=> epochs_since_last_save + 1 >= period
              /\ ~Triggered(outcome')
                   => /\ outcome'.status = "interval_not_reached"
                      /\ epochs_since_last_save' = epochs_since_last_save + 1
                      /\ artifacts' = artifacts
              /\ Triggered(outcome') => epochs_since_last_save' = 0
        /\ event'.hook = "on_train_batch_end"
           => /\ outcome'.status = "no_trigger"
              /\ UNCHANGED <<batches_seen_since_last_saving, last_batch_seen,
                             epochs_since_last_save, best, artifacts>>]_vars

\* With period = 2 the first epoch end is skipped and the second saves.
C3_Witness ==
  /\ save_freq.kind = "epoch" /\ period = 2
  /\ epochs_run = 2 /\ event.hook = "on_epoch_end"
  /\ outcome.status = "saved" /\ n_calls > 0

\* C4: whenever best changes it becomes strictly smaller under np.less and
\* strictly larger under np.greater.
C4_BestOnlyImproves ==
  [][best' # best
     => /\ monitor_op = "less" => np_less(best', best)
        /\ monitor_op = "greater" => np_less(best, best')]_vars

\* Two improvements in a row under an Auto mode resolved to Min.
C4_Witness ==
  /\ save_best_only /\ monitor = "val_loss" /\ monitor_op = "less"
  /\ filepath = TemplateMetric
  /\ best = Num(0) /\ Cardinality(artifacts) >= 2

\* C5 as stated: with save_best_only, a triggered save event whose logs lack
\* the monitored metric raises no error.
C5_AbsentMetricRaisesNothing ==
  (save_best_only /\ Triggered(outcome) /\ monitor \notin DOMAIN event.logs)
  => outcome.status = "metric_unavailable"

\* C5, amended: with save_best_only, a triggered save event whose logs lack
\* the monitored metric writes nothing and leaves best unchanged; it raises
\* no error when the event supplies every placeholder of the template, and
\* the missing-placeholder error otherwise; the next event is processed as
\* usual (it saves when its metric improves on best).
C5_AbsentMetricSkipsSave ==
  [][save_best_only
     => /\ (Triggered(outcome') /\ monitor \notin DOMAIN event'.logs)
           => /\ artifacts' = artifacts
              /\ best' = best
              /\ IF Complete(event')
                 THEN outcome'.status = "metric_unavailable"
                 ELSE outcome'.status \in {"KeyError", "TypeError"}
        /\ (outcome.status = "metric_unavailable" /\ Triggered(outcome')
             /\ Complete(event') /\ monitor \in DOMAIN event'.logs)
           => /\ Wrote(outcome')
                   <=> np_less(IF monitor_op = "less"
                                 THEN Num(event'.logs[monitor]) ELSE best,
                               IF monitor_op = "less"
                                 THEN best ELSE Num(event'.logs[monitor]))
              /\ ~Wrote(outcome') => outcome'.status = "not_improved"]_vars

\* The metric is absent and the save is skipped without an error.
C5_Witness ==
  /\ save_best_only /\ outcome.status = "metric_unavailable"
  /\ monitor \notin DOMAIN event.logs
  /\ best = Num(0) /\ artifacts # {}

\* C6 as stated: whatever the logs hold, a resolved path carries epoch + 1
\* for the epoch field and, for an event with a step, step + 1 for the
\* batch field.
C6_OneIndexedWhateverLogs ==
  outcome.file_path # NoPath
  => /\ "epoch" \in FieldNames(filepath)
          => outcome.kwargs["epoch"] = event.epoch + 1
     /\ ("batch" \in FieldNames(filepath) /\ event.batch # NoBatch)
          => outcome.kwargs["batch"] = event.batch + 1

\* C6, amended: a resolved path carries epoch + 1 for the epoch field; for
\* an event with a step it carries step + 1 for the batch field when the
\* logs have no entry named "batch", and that entry's value when they have
\* one. "ckpt-{epoch:02d}.bin" at epoch 4 resolves to "ckpt-05.bin".
C6_OneIndexedFields ==
  outcome.file_path # NoPath
  => /\ "epoch" \in FieldNames(filepath)
          => outcome.kwargs["epoch"] = event.epoch + 1
     /\ ("batch" \in FieldNames(filepath) /\ event.batch # NoBatch)
          => outcome.kwargs["batch"] =
               IF "batch" \in DOMAIN event.logs
               THEN event.logs["batch"] ELSE event.batch + 1
     /\ filepath = TemplateEpoch
          => outcome.file_path =
               <<"ckpt-">> \o Format02d(event.epoch + 1) \o <<".bin">>
     /\ (filepath = TemplateEpoch /\ event.epoch = 4)
          => outcome.file_path = <<"ckpt-", "0", "5", ".bin">>
     /\ filepath = TemplateBatch
          => outcome.file_path =
               <<"ckpt-">> \o Format02d(event.epoch + 1) \o <<"-">>
                 \o Format02d(outcome.kwargs["batch"]) \o <<".bin">>

\* Step 1 of epoch 4 resolves "ckpt-{epoch:02d}-{batch:02d}.bin" to
\* "ckpt-05-02.bin".
C6_Witness ==
  /\ filepath = TemplateBatch /\ event.epoch = 4 /\ event.batch = 1
  /\ outcome.file_path = <<"ckpt-", "0", "5", "-", "0", "2", ".bin">>
  /\ outcome.status = "saved"

\* C7: a save event that lacks a value for a placeholder of the template
\* raises the missing-placeholder error before the serializer is called:
\* nothing is written and best is unchanged; an event with a complete
\* mapping that follows it saves as usual. (Logs with an entry named
\* "epoch" fail at the format call itself, with TypeError.)
C7_MissingPlaceholderRaises ==
  [][/\ (Triggered(outcome') /\ ~Complete(event'))
        => /\ outcome'.status =
                IF "epoch" \in DOMAIN event'.logs
                THEN "TypeError" ELSE "KeyError"
           /\ outcome'.file_path = NoPath
           /\ artifacts' = artifacts
           /\ best' = best
     /\ (outcome.status = "KeyError" /\ Triggered(outcome')
          /\ Complete(event') /\ ~save_best_only)
        => /\ Wrote(outcome')
           /\ outcome'.status = "saved"
                => artifacts' = artifacts \cup {outcome'.file_path}]_vars

\* The metric named by the template is missing from the logs.
C7_Witness ==
  /\ filepath = TemplateMetric /\ "val_loss" \notin DOMAIN event.logs
  /\ outcome.status = "KeyError" /\ save_best_only
  /\ best = Num(0) /\ artifacts # {}

\* C8 as stated: an epoch-granularity save whose template has a step
\* placeholder produces a resolved path.
C8_EpochSaveResolvesStepTemplate ==
  (event.hook = "on_epoch_end" /\ Triggered(outcome)
     /\ "batch" \in FieldNames(filepath) /\ "epoch" \notin DOMAIN event.logs)
  => outcome.file_path # NoPath

\* C8, amended: an epoch-granularity save passes no step value to the
\* template; when the template has a step placeholder the resolution fails
\* with the missing-placeholder error and yields no path, unless the logs
\* have an entry named "batch", whose value then fills the placeholder
\* (logs with an entry named "epoch" fail at the format call itself).
C8_EpochSaveStepTemplateFails ==
  (event.hook = "on_epoch_end" /\ Triggered(outcome)
     /\ "batch" \in FieldNames(filepath) /\ "epoch" \notin DOMAIN event.logs)
  => IF "batch" \in DOMAIN event.logs
     THEN /\ Wrote(outcome)
          /\ outcome.kwargs["batch"] = event.logs["batch"]
          /\ outcome.file_path =
               <<"ckpt-">> \o Format02d(event.epoch + 1) \o <<"-">>
                 \o Format02d(event.logs["batch"]) \o <<".bin">>
     ELSE /\ outcome.status = "KeyError"
          /\ outcome.file_path = NoPath
          /\ "batch" \notin DOMAIN outcome.kwargs

C8_Witness ==
  /\ event.hook = "on_epoch_end" /\ save_freq.kind = "epoch"
  /\ filepath = TemplateBatch /\ event.logs = <<>>
  /\ outcome.status = "KeyError" /\ artifacts = {}

\* The matching entries of the directory, and the scan having decided the
\* returned value (no marker applied).
Matching == {i \in 1..Len(listing) : ReMatch(listing[i].name)}
EntryPath(i) == PathJoin(DirName, listing[i].name)
ScanDecided ==
  /\ loc_pc = "done"
  /\ ~(latest_tf_checkpoint # NoPath /\ ReMatch(Basename(latest_tf_checkpoint)))

\* C9 as stated: when no marker applies, the path the scan returns is a
\* most recently modified matching entry: no matching entry has a strictly
\* later modification time.
C9_ReturnsMostRecentlyModified ==
  (ScanDecided /\ located # NoPath)
  => \E i \in Matching :
        /\ located = EntryPath(i)
        /\ \A j \in Matching : listing[j].mtime <= listing[i].mtime

\* C10: when no marker applies and two or more matching entries all share
\* one modification time, the scan returns the greatest full path among
\* them: f.batch03epoch02 among f.batch03epoch02, f.batch02epoch02 and
\* f.batch01epoch01.
C10_SameTimeReturnsGreatestPath ==
  (/\ ScanDecided
   /\ Cardinality(Matching) >= 2
   /\ \A i, j \in Matching : listing[i].mtime = listing[j].mtime)
  => /\ \E i \in Matching : located = EntryPath(i)
     /\ \A j \in Matching : ~StrGreater(EntryPath(j), located)
     /\ {listing[i].name : i \in Matching}
          = {Batch01Epoch01, Batch02Epoch02, Batch03Epoch02}
        => located = PathJoin(DirName, Batch03Epoch02)

\* The docstring's three files, listed greatest first beside a file that
\* does not match, all modified at time 1.
C10_Witness ==
  /\ ScanDecided
  /\ Len(listing) = 4
  /\ listing[1].name = Batch03Epoch02 /\ listing[2].name = OtherName
  /\ listing[3].name = Batch01Epoch01
  /\ \A i \in 1..4 : listing[i].mtime = 1
  /\ located = PathJoin(DirName, Batch03Epoch02)


\* C11: for fixed entries, modification times and marker, the locator
\* returns the same value for every order in which the listing enumerates
\* the entries.
C11_OrderIndependent ==
  loc_pc = "done"
  => \A p \in Orders(listing) :
        LocateOver(latest_tf_checkpoint, dir_exists,
                   Reordered(listing, p)) = located

\* Three matching entries of three different times, the latest listed
\* first and the greatest path listed second: the scan returns the
\* latest, as it does for the other five orders.
C11_Witness ==
  /\ ScanDecided
  /\ Len(listing) = 3
  /\ listing[1] = [name |-> Batch01Epoch01, mtime |-> 2]
  /\ listing[2] = [name |-> Batch03Epoch02, mtime |-> 0]
  /\ listing[3] = [name |-> Batch02Epoch02, mtime |-> 1]
  /\ located = PathJoin(DirName, Batch01Epoch01)

\* The marker names a file of the directory whose name matches the pattern.
MarkerMatches ==
  \E name \in FileNames :
     ReMatch(name) /\ latest_tf_checkpoint = PathJoin(DirName, name)

\* C12: a marker whose file name matches the pattern is returned as it is,
\* before any entry of the directory is read, whatever newer or greater
\* matching entries the directory holds; with no marker, or a marker whose
\* file name does not match, the value returned is the one the scan of the
\* directory gives without a marker.
C12_MatchingMarkerReturned ==
  loc_pc = "done"
  => IF MarkerMatches
     THEN /\ located = latest_tf_checkpoint
          /\ loc_i = 0
          /\ n_file_with_latest_mod_time = 0
          /\ file_path_with_latest_mod_time = NoPath
          /\ file_path_with_largest_file_name = NoPath
     ELSE /\ located = LocateOver(NoPath, dir_exists, listing)
          /\ located = ScanResult(n_file_with_latest_mod_time,
                                  file_path_with_latest_mod_time,
                                  file_path_with_largest_file_name)
          /\ dir_exists => loc_i = Len(listing)

\* The marker names f.batch01epoch01 while the directory also holds
\* f.batch03epoch02, a greater path modified later.
C12_Witness ==
  /\ loc_pc = "done"
  /\ latest_tf_checkpoint = PathJoin(DirName, Batch01Epoch01)
  /\ Len(listing) = 2
  /\ listing[1] = [name |-> Batch03Epoch02, mtime |-> 2]
  /\ listing[2] = [name |-> Batch01Epoch01, mtime |-> 1]
  /\ located = PathJoin(DirName, Batch01Epoch01)

\* C13: when no marker applies and the directory does not exist, is empty
\* or holds no entry whose name matches the pattern, the locator returns
\* None; os.listdir is called only on a directory that exists, so nothing
\* raises. A directory holding only "z" is such a directory.
C13_NothingToLocate ==
  /\ loc_pc = "scan" => dir_exists
  /\ (loc_pc = "done" /\ ~MarkerMatches
        /\ (~dir_exists \/ listing = <<>> \/ Matching = {}))
     => /\ located = NoPath
        /\ n_file_with_latest_mod_time = 0
  /\ (loc_pc = "done" /\ latest_tf_checkpoint = NoPath /\ dir_exists
        /\ Len(listing) = 1 /\ listing[1].name = OtherName)
     => located = NoPath

\* The marker names "z", which does not match, and the directory holds
\* only "z", modified at time 2.
C13_Witness ==
  /\ loc_pc = "done"
  /\ latest_tf_checkpoint = PathJoin(DirName, OtherName)
  /\ dir_exists
  /\ listing = <<[name |-> OtherName, mtime |-> 2]>>
  /\ loc_i = 1
  /\ located = NoPath

\* The path the save event resolves to, and a writer's temporary location.
ResolvedPath ==
  GetFilePath(filepath, w_event.epoch, w_event.batch, w_event.logs).file_path
OwnTemp(w, path) == Inside(TempDirName(w), path)

\* C14: when _save_model of a writer that should not checkpoint has
\* reached the saving interval and returned normally, whether it saved,
\* found no improvement or found no metric, the temporary directory made
\* for its write path is gone with everything in it.
C14_PlaceholderRemoved ==
  \A w \in Writers :
     (~ShouldCheckpoint(w) /\ w_pc[w] = "returned")
     => /\ w_status[w] \in {"saved", "not_improved", "metric_unavailable"}
        /\ FsCall(w, "makedirs", TempDirName(w)) \in fs_log
        /\ w_status[w] = "saved"
             => FsCall(w, "save", OsPathJoin(TempDirName(w), ResolvedPath))
                  \in fs_log
        /\ \A p \in fs : ~OwnTemp(w, p)

\* Worker 1 has saved and returned while worker 2 still holds its own
\* temporary directory.
C14_Witness ==
  /\ w_pc[1] = "returned" /\ w_status[1] = "saved"
  /\ w_pc[2] = "resolved" /\ TempDirName(2) \in fs
  /\ w_pc[0] = "start"

\* C15: in every interleaving, a serializer save to the resolved path is
\* the chief's, which makes no other file-system call; every call of
\* another writer names a path inside its own temporary directory and
\* inside no other writer's; what disappears at a step was inside the
\* temporary directory of the writer that took the step; and once every
\* writer has returned, only the resolved path is left, and it exists
\* exactly when the chief saved it.
C15_OnlyChiefWritesResolvedPath ==
  [][/\ \A c \in fs_log' :
          IF ShouldCheckpoint(c.writer)
          THEN c.op = "save" /\ c.path = ResolvedPath
          ELSE /\ c.path # ResolvedPath
               /\ OwnTemp(c.writer, c.path)
               /\ \A v \in Writers \ {c.writer} : ~OwnTemp(v, c.path)
     /\ \A p \in fs \ fs' :
          \E w \in Writers :
             /\ ~ShouldCheckpoint(w) /\ w_pc'[w] # w_pc[w]
             /\ OwnTemp(w, p)
     /\ \A p \in fs' \ fs :
          \E w \in Writers :
             /\ w_pc'[w] # w_pc[w]
             /\ IF ShouldCheckpoint(w) THEN p = ResolvedPath
                ELSE OwnTemp(w, p)
     /\ (\A w \in Writers : w_pc'[w] = "returned")
        => /\ fs' \subseteq {ResolvedPath}
           /\ \E w \in Writers :
                 /\ ShouldCheckpoint(w)
                 /\ CheckpointExists(fs', ResolvedPath)
                      <=> w_status'[w] = "saved"]_vars

\* All three writers have saved and returned: seven file-system calls
\* were made and only the chief's file is left.
C15_Witness ==
  /\ \A w \in Writers : w_pc[w] = "returned" /\ w_status[w] = "saved"
  /\ fs = {ResolvedPath}
  /\ Cardinality(fs_log) = 7
  /\ filepath = TemplateEpoch

\* C16 as stated: only "epoch" and positive integers are accepted, so an
\* instance whose save_freq is anything else never processes an event.
C16_OnlyPositiveStepCountAccepted ==
  ~(save_freq.kind = "epoch" \/ (save_freq.kind = "int" /\ save_freq.n >= 1))
  => event = NoEvent

\* C16, amended: construction accepts "epoch" and every integer, zero and
\* negative ones included, and rejects every other value with ValueError,
\* so that no instance with such a value processes an event; an instance
\* whose save_freq is an integer below 1 attempts a save at every
\* on_train_batch_end call.
C16_OnlyEpochOrIntegerAccepted ==
  /\ save_freq.kind \notin {"epoch", "int"}
     => /\ outcome.status = "ValueError"
        /\ event = NoEvent /\ n_calls = 0 /\ artifacts = {}
  /\ save_freq.kind \in {"epoch", "int"} => outcome.status # "ValueError"
  /\ (save_freq.kind = "int" /\ save_freq.n < 1)
     => /\ n_triggers = n_calls
        /\ batches_seen_since_last_saving = 0
        /\ event.hook = "on_train_batch_end" => Triggered(outcome)

\* An instance built with save_freq = 0 has saved at its first two steps.
C16_Witness ==
  /\ save_freq = EverySteps(0)
  /\ event.hook = "on_train_batch_end" /\ event.batch = 1
  /\ outcome.status = "saved"
  /\ n_calls = 2 /\ n_triggers = 2 /\ drv_kind = "sequential"

\* C17: an instance built with mode "auto" compares with np.greater, and
\* starts from -Inf when no threshold is given, for every monitored name
\* that contains "acc" or contains "fmeasure", and with np.less, starting
\* from +Inf, for every other name.
C17_AutoMaxForAccuracyAndFMeasureNames ==
  LET higher == \/ Contains(Chars(monitor), Chars("acc"))
                \/ Contains(Chars(monitor), Chars("fmeasure"))
  IN /\ monitor_op = IF higher THEN "greater" ELSE "less"
     /\ (artifacts = {} /\ best.inf # 0)
        => best = IF higher THEN NegInf ELSE PosInf

\* C18: in step mode, with a driver that reports the last step of every
\* execution of steps_per_execution = k steps, every on_train_batch_end
\* call adds exactly k to the counter, the first call of the session and
\* the first call of each later epoch included.
C18_EveryObservationAddsK ==
  (save_freq.kind = "int" /\ drv_kind = "sequential"
     /\ event.hook = "on_train_batch_end")
  => outcome.add_batches = steps_per_execution

\* The metric of the event improves strictly on b under the comparison
\* the instance resolved.
Improves(logs, b) ==
  /\ monitor \in DOMAIN logs
  /\ IF monitor_op = "less" THEN np_less(Num(logs[monitor]), b)
     ELSE np_less(b, Num(logs[monitor]))

\* C19: with save_best_only, a triggered save event whose path resolves
\* calls the serializer exactly when its metric is present and improves
\* strictly on best; best changes only at an event that wrote its
\* artifact, and then to the value written, so that best is its initial
\* value or the value of the last artifact written. Without
\* save_best_only every such event calls the serializer and best never
\* changes.
C19_BestIsLastWrittenValue ==
  [][(Triggered(outcome') /\ Complete(event'))
     => IF save_best_only
        THEN /\ Wrote(outcome') <=> Improves(event'.logs, best)
             /\ outcome'.status = "saved"
                  => best' = Num(event'.logs[monitor])
             /\ best' # best => outcome'.status = "saved"
        ELSE Wrote(outcome') /\ best' = best]_vars

\* C20: a triggered save whose serializer call fails raises the error and
\* leaves best as it was before the event.
C20_FailedWriteKeepsBest ==
  [][outcome'.status = "IOError"
     => /\ best' = best
        /\ artifacts' = artifacts]_vars

\* C21: when no marker applies and the directory exists and holds at least
\* one entry whose name matches the pattern, the locator returns the path
\* of one of the matching entries, whatever the modification times are; a
\* single matching entry modified at time 0 is returned.
C21_ReturnsAMatchingEntry ==
  (ScanDecided /\ dir_exists /\ Matching # {})
  => \E i \in Matching : located = EntryPath(i)
====
